---- MODULE Spec2Model ----
(***************************************************************************)
(* A model of the auditable key directory: SeemlessDirectory               *)
(* (src/src/seemless_directory.rs) over an append-only zero-knowledge set  *)
(* (AZKS).  The directory code is translated from the source.  The AZKS,   *)
(* the label derivation and the value hashing are not part of the sources  *)
(* at hand (the directory only calls them, or stubs them), so they are     *)
(* modelled from the specification: hashes are symbolic (injective), a     *)
(* root hash is the set of (label, leaf hash) pairs it commits to.         *)
(***************************************************************************)
EXTENDS Integers, Sequences, FiniteSets, TLC

(***************************************************************************)
(* Bounds of the model.                                                    *)
(***************************************************************************)
\* publish is explored while current_epoch < MaxEpoch
MaxEpoch == 3
\* an update batch holds at most MaxBatch (user, value) pairs
MaxBatch == 2
\* a byte holds 0..ByteBase - 1 (256 values in the source); a digest is 4 bytes
\* (32 in the source), in 2 limbs (4 in the source) of 2 bytes (8 in the source)
ByteBase == 3
\* the order of the scalar field of BlsScalar, scaled with the digest: as the
\* order of BLS12-381's scalar field lies below 2^255, it lies below
\* ByteBase^4, at the same share of the digests
FieldModulus == 37

Users == {"alice", "bob"}

VARIABLES
    current_epoch,  \* SeemlessDirectory.current_epoch
    user_data,      \* SeemlessDirectory.user_data: user -> Vec<UserState> (<<>> = no entry)
    azks,           \* SeemlessDirectory.azks
    last,           \* the last call and what it returned
    history,        \* what the caller has seen: the successful publishes and their
                    \* commitments, the values supplied, the successful publishes
                    \* that included each user, the leaves of the last batch
    store           \* the storage layer: position (a string) -> value (a string)

vars == <<current_epoch, user_data, azks, last, history, store>>

(***************************************************************************)
(* Primitives: hashing and label derivation (symbolic).                    *)
(***************************************************************************)
\* H::hash(&Self::value_to_bytes(&val)): the commitment to a value (no blinding)
value_hash(val) == <<"H", val>>

\* H::hash(&[0u8]): the value of every stale leaf
stale_value == <<"H", <<"zero">>>>

\* get_nodelabel(uname, stale, version): the VRF-derived label, injective
get_nodelabel(uname, stale, version) == <<uname, stale, version>>

RECURSIVE FloorLog2(_)
FloorLog2(n) == IF n <= 1 THEN 0 ELSE 1 + FloorLog2(n \div 2)

RECURSIVE Pow2(_)
Pow2(k) == IF k <= 0 THEN 1 ELSE 2 * Pow2(k - 1)

\* (64 - version.leading_zeros() - 1).into(): floor(log2 version); for version 0
\* the u32 subtraction underflows, written -1 here
get_marker_version(version) == IF version = 0 THEN -1 ELSE FloorLog2(version)

(***************************************************************************)
(* The AZKS (modelled from the specification, sections 3 and 4.4).         *)
(* leaves: the leaves with the epoch of their (only) snapshot.             *)
(***************************************************************************)
\* a tree that starts with a leaf under its root
Azks_with_leaf ==
    [leaves |-> {[label |-> <<"alice", FALSE, 0>>, value |-> <<"H", <<"zero">>>>, epoch |-> 0]},
     latest_epoch |-> 0]

Azks_new == [leaves |-> {}, latest_epoch |-> 0]

\* a leaf's hash at its epoch: H(value || epoch)
LeafHash(leaf) == <<leaf.value, leaf.epoch>>

\* the leaves whose snapshot is at an epoch <= epoch
LeavesAt(a, epoch) == {l \in a.leaves : l.epoch <= epoch}

\* the (label, hash) pairs a root hash at that epoch commits to
PairsAt(a, epoch) == {<<l.label, LeafHash(l)>> : l \in LeavesAt(a, epoch)}

\* the root hash of a set of (label, hash) pairs: symbolic, injective
RootOf(pairs) == pairs

\* empty_root_value: the root hash of the tree with no leaf
empty_root_value == RootOf({})

\* root_hash_at(epoch): the root's snapshot with the greatest epoch <= epoch,
\* EpochNotPublished when there is none
get_root_hash_at_epoch(a, epoch) ==
    IF epoch < 0
    THEN [ok |-> FALSE, err |-> "EpochNotPublished", hash |-> empty_root_value]
    ELSE [ok |-> TRUE, err |-> "", hash |-> RootOf(PairsAt(a, epoch))]

\* batch_insert: all-or-nothing; duplicate labels in the batch and labels
\* already in the tree are errors; the new leaves get the next epoch
batch_insert_leaves(a, insertion_set) ==
    LET idx == 1..Len(insertion_set)
        present == {l.label : l \in a.leaves}
    IN  IF \E i, j \in idx : i # j /\ insertion_set[i][1] = insertion_set[j][1]
        THEN [azks |-> a, output |-> "DuplicateInsertion"]
        ELSE IF \E i \in idx : insertion_set[i][1] \in present
        THEN [azks |-> a, output |-> "RepeatedLabel"]
        ELSE [azks |-> [leaves |-> a.leaves \cup
                            {[label |-> insertion_set[i][1],
                              value |-> insertion_set[i][2],
                              epoch |-> a.latest_epoch + 1] : i \in idx},
                        latest_epoch |-> a.latest_epoch + 1],
              output |-> "Ok"]

\* membership_proof(label, epoch): the label, its leaf hash at epoch and the
\* siblings up to the root (here: the other pairs under the root)
NoHash == <<<<"H", <<"none">>>>, -1>>
get_membership_proof(a, label, epoch) ==
    LET mine == {l \in LeavesAt(a, epoch) : l.label = label}
    IN  [label |-> label,
         hash_val |-> IF mine = {} THEN NoHash ELSE LeafHash(CHOOSE l \in mine : TRUE),
         siblings |-> {<<l.label, LeafHash(l)>> : l \in LeavesAt(a, epoch) \ mine}]

\* verification folds the siblings onto the leaf and compares with the root
verify_membership(root, epoch, proof) ==
    RootOf(proof.siblings \cup {<<proof.label, proof.hash_val>>}) = root

\* non_membership_proof(label, epoch): the node at the longest existing prefix
\* of label with its path to the root (here: the pairs under the root)
get_non_membership_proof(a, label, epoch) ==
    [label |-> label, pairs |-> PairsAt(a, epoch)]

\* accepted when nothing in the proof extends to label and the proof folds to
\* the root
verify_nonmembership(label, root, epoch, proof) ==
    /\ \A p \in proof.pairs : p[1] # label
    /\ RootOf(proof.pairs) = root

(***************************************************************************)
(* SeemlessDirectory::publish                                              *)
(***************************************************************************)
\* a user state whose versions are counted from 0
UserState_zero_based(val, version, label, epoch) ==
    [plaintext_val |-> val, version |-> version - 1, label |-> label, epoch |-> epoch]

UserState(val, version, label, epoch) ==
    [plaintext_val |-> val, version |-> version, label |-> label, epoch |-> epoch]

\* an update that hands over the fresh leaf only
update_leaves_fresh_only(ud, uname, val) ==
    IF ud[uname] = <<>>
    THEN << <<get_nodelabel(uname, FALSE, 1), value_hash(val)>> >>
    ELSE << <<get_nodelabel(uname, FALSE, ud[uname][Len(ud[uname])].version + 1),
              value_hash(val)>> >>

\* the leaves one update adds to update_set (the match on user_data.get)
update_leaves(ud, uname, val) ==
    IF ud[uname] = <<>>
    THEN << <<get_nodelabel(uname, FALSE, 1), value_hash(val)>> >>
    ELSE LET previous_version == ud[uname][Len(ud[uname])].version
             latest_version == previous_version + 1
         IN  << <<get_nodelabel(uname, TRUE, previous_version), stale_value>>,
                <<get_nodelabel(uname, FALSE, latest_version), value_hash(val)>> >>

\* an update that appends the new state under the previous version
update_user_data_same_version(ud, uname, val, next_epoch) ==
    IF ud[uname] = <<>>
    THEN << UserState(val, 1, get_nodelabel(uname, FALSE, 1), next_epoch) >>
    ELSE LET previous_version == ud[uname][Len(ud[uname])].version
         IN  Append(ud[uname],
                    UserState(val, previous_version,
                              get_nodelabel(uname, FALSE, previous_version), next_epoch))

\* the UserData one update adds to user_data_update_set
update_user_data(ud, uname, val, next_epoch) ==
    IF ud[uname] = <<>>
    THEN << UserState(val, 1, get_nodelabel(uname, FALSE, 1), next_epoch) >>
    ELSE LET latest_version == ud[uname][Len(ud[uname])].version + 1
         IN  Append(ud[uname],
                    UserState(val, latest_version,
                              get_nodelabel(uname, FALSE, latest_version), next_epoch))

\* update_set after the loop over updates (self.user_data is read, not written)
RECURSIVE update_set(_, _)
update_set(ud, updates) ==
    IF updates = <<>> THEN <<>>
    ELSE update_leaves(ud, updates[1][1], updates[1][2]) \o update_set(ud, Tail(updates))

\* user_data after user_data_update_set is inserted entry by entry: every
\* entry was computed from the old map, a later entry for a user replaces an
\* earlier one
RECURSIVE insert_user_data(_, _, _, _)
insert_user_data(old, cur, updates, next_epoch) ==
    IF updates = <<>> THEN cur
    ELSE insert_user_data(old,
            [cur EXCEPT ![updates[1][1]] =
                update_user_data(old, updates[1][1], updates[1][2], next_epoch)],
            Tail(updates), next_epoch)

\* The update batches explored: any sequence of at most MaxBatch users, a
\* user possibly repeated.  Values are opaque to the directory (it never
\* compares them), so each update carries a value that names its publish, as
\* the test vectors' "{index},{epoch}" values do, and says whether it is a
\* repeated update of its user in the batch.
UserBatches == UNION {[1..n -> Users] : n \in 0..MaxBatch}

ValueOf(unames, i, next_epoch) ==
    <<"val", next_epoch, IF \E j \in 1..(i - 1) : unames[j] = unames[i] THEN 1 ELSE 0>>

WithValues(unames, next_epoch) ==
    [i \in 1..Len(unames) |-> <<unames[i], ValueOf(unames, i, next_epoch)>>]

\* what the caller knows of a batch: its users, and whether one is repeated
BatchInfo(updates) ==
    [users |-> {updates[i][1] : i \in 1..Len(updates)},
     duplicate |-> \E i, j \in 1..Len(updates) : i # j /\ updates[i][1] = updates[j][1]]

\* the value the caller last supplied for each user of a batch
RECURSIVE supplied_after(_, _)
supplied_after(sup, updates) ==
    IF updates = <<>> THEN sup
    ELSE supplied_after([sup EXCEPT ![updates[1][1]] = updates[1][2]], Tail(updates))

\* publish, with the tree the batch is inserted into as a parameter
publish_into(tree, updates) ==
    LET next_epoch == current_epoch + 1
        insertion_set == update_set(user_data, updates)
        res == batch_insert_leaves(tree, insertion_set)
    IN  /\ azks' = res.azks
        /\ user_data' = insert_user_data(user_data, user_data, updates, next_epoch)
        /\ current_epoch' = next_epoch
        /\ last' = [op |-> "publish", arg |-> BatchInfo(updates), result |-> res.output]
        /\ history' =
              [published |-> IF res.output = "Ok"
                             THEN Append(history.published,
                                         [epoch |-> next_epoch,
                                          hash |-> RootOf(PairsAt(res.azks,
                                                     res.azks.latest_epoch))])
                             ELSE history.published,
               supplied |-> supplied_after(history.supplied, updates),
               included |-> [u \in Users |->
                               history.included[u] +
                                 (IF res.output = "Ok" /\ u \in BatchInfo(updates).users
                                  THEN 1 ELSE 0)],
               insertion_set |-> {insertion_set[i] : i \in 1..Len(insertion_set)},
               n_ok |-> history.n_ok + (IF res.output = "Ok" THEN 1 ELSE 0)]

\* a publish that inserts the batch into a tree of its own instead of self.azks
publish_into_new_tree(updates) ==
    publish_into([leaves |-> {}, latest_epoch |-> azks.latest_epoch], updates)

publish(updates) ==
    publish_into(azks, updates)

Publish ==
    /\ current_epoch < MaxEpoch
    /\ \E unames \in UserBatches : publish(WithValues(unames, current_epoch + 1))
    /\ UNCHANGED store

(***************************************************************************)
(* SeemlessDirectory::lookup                                               *)
(***************************************************************************)
NoProof == [epoch |-> -1]

\* a lookup error that does not carry the current epoch
lookup_error_without_epoch(uname) ==
    [ok |-> FALSE, err |-> <<"LookedUpNonExistentUser", uname, 0>>, proof |-> NoProof]

\* the None arm
lookup_error(uname) ==
    [ok |-> FALSE,
     err |-> <<"LookedUpNonExistentUser", uname, current_epoch>>,
     proof |-> NoProof]

\* the Some arm, with the epoch the proof is stamped with as a parameter
lookup_some(uname, proof_epoch) ==
    LET latest_st == user_data[uname][Len(user_data[uname])]
        current_version == latest_st.version
        marker_version == get_marker_version(current_version)
        existent_label == get_nodelabel(uname, FALSE, current_version)
        non_existent_label == get_nodelabel(uname, TRUE, current_version)
        marker_label == get_nodelabel(uname, FALSE, marker_version)
    IN  [ok |-> TRUE,
         err |-> <<>>,
         proof |-> [epoch |-> proof_epoch,
                    plaintext_value |-> latest_st.plaintext_val,
                    version |-> current_version,
                    existence_proof |->
                       get_membership_proof(azks, existent_label, current_epoch),
                    marker_proof |->
                       get_membership_proof(azks, marker_label, current_epoch),
                    freshness_proof |->
                       get_non_membership_proof(azks, non_existent_label,
                                                current_epoch)]]

\* a proof stamped with the epoch of the user's latest version
lookup_proof_at_version_epoch(uname) ==
    lookup_some(uname, user_data[uname][Len(user_data[uname])].epoch)

lookup_proof(uname) ==
    lookup_some(uname, current_epoch)

lookup(uname) ==
    IF user_data[uname] = <<>> THEN lookup_error(uname) ELSE lookup_proof(uname)

\* a lookup that also moves the directory to the next epoch
Lookup_advancing_epoch ==
    /\ current_epoch < MaxEpoch
    /\ \E uname \in Users :
          last' = [op |-> "lookup", arg |-> uname, result |-> lookup(uname)]
    /\ current_epoch' = current_epoch + 1
    /\ UNCHANGED <<user_data, azks, history, store>>

Lookup ==
    /\ \E uname \in Users :
          last' = [op |-> "lookup", arg |-> uname, result |-> lookup(uname)]
    /\ UNCHANGED <<current_epoch, user_data, azks, history, store>>

(***************************************************************************)
(* SeemlessDirectory::lookup_verify                                        *)
(* Every check is an unwrap or an assert!: a failed check panics, and the  *)
(* only value returned is Ok(()).                                          *)
(***************************************************************************)
lookup_verify(uname, proof) ==
    LET epoch == proof.epoch
        root == get_root_hash_at_epoch(azks, epoch)
        root_node == root.hash
        version == proof.version
        marker_version == Pow2(get_marker_version(version))
        existence_label == get_nodelabel(uname, FALSE, version)
        non_existence_label == get_nodelabel(uname, TRUE, version)
        marker_label == get_nodelabel(uname, FALSE, marker_version)
    IN  IF ~root.ok THEN "Panic: unwrap of the root hash"
        ELSE IF ~(existence_label # proof.existence_proof.label)
        THEN "Panic: assert on the existence label"
        ELSE IF ~(non_existence_label # proof.freshness_proof.label)
        THEN "Panic: assert on the freshness label"
        ELSE IF ~(marker_label # proof.marker_proof.label)
        THEN "Panic: assert on the marker label"
        ELSE IF ~verify_membership(root_node, epoch, proof.existence_proof)
        THEN "Panic: Existence proof did not verify!"
        ELSE IF ~verify_membership(root_node, epoch, proof.marker_proof)
        THEN "Panic: Marker proof did not verify!"
        ELSE IF ~verify_nonmembership(non_existence_label, root_node, epoch,
                                      proof.freshness_proof)
        THEN "Panic: Freshness proof did not verify!"
        ELSE "Ok"

\* The proofs a verifier is handed: the one lookup returned and the same with
\* one field changed (lookup_proof_variants, and a changed leaf or sibling hash)
Variants == {"original", "epoch", "version", "value", "label", "leaf_hash", "sibling"}

TamperedHash(h) == <<<<"H", <<"tampered">>>>, h[2]>>

lookup_proof_variant(original_proof, variant) ==
    CASE variant = "original" -> original_proof
      [] variant = "epoch" -> [original_proof EXCEPT !.epoch = @ + 1]
      [] variant = "version" -> [original_proof EXCEPT !.version = @ + 1]
      [] variant = "value" ->
            [original_proof EXCEPT !.plaintext_value = <<"tampered", @[2], @[3]>>]
      [] variant = "label" ->
            [original_proof EXCEPT !.existence_proof.label = <<"tampered", @[2], @[3]>>]
      [] variant = "leaf_hash" ->
            [original_proof EXCEPT !.existence_proof.hash_val = TamperedHash(@)]
      [] variant = "sibling" ->
            [original_proof EXCEPT !.existence_proof.siblings =
                {<<p[1], TamperedHash(p[2])>> : p \in @}]

\* the verifier runs on every variant of the proof lookup returns for uname
LookupVerify ==
    /\ \E uname \in Users :
          /\ lookup(uname).ok
          /\ last' = [op |-> "lookup_verify",
                      arg |-> uname,
                      result |-> [variant \in Variants |->
                                    lookup_verify(uname,
                                        lookup_proof_variant(lookup(uname).proof,
                                                             variant))]]
    /\ UNCHANGED <<current_epoch, user_data, azks, history, store>>

(***************************************************************************)
(* SeemlessDirectory::key_history                                          *)
(***************************************************************************)
\* the range that runs up to and including 1 << next_marker
next_few_versions_inclusive(version) ==
    (version + 1)..Pow2(get_marker_version(version) + 1)

\* version + 1..(1 << next_marker): the versions of the "next few" loop
next_few_versions(version) ==
    (version + 1)..(Pow2(get_marker_version(version) + 1) - 1)

\* next_marker..final_marker + 1: the exponents of the "future markers" loop
future_marker_powers(version, epoch) ==
    (get_marker_version(version) + 1)..get_marker_version(epoch)

create_single_update_proof(uname, user_state) ==
    LET epoch == user_state.epoch
        version == user_state.version
        label_at_ep == get_nodelabel(uname, FALSE, version)
        prev_label_at_ep == get_nodelabel(uname, TRUE, version)
        next_marker == get_marker_version(version) + 1
        final_marker == get_marker_version(epoch)
        few == next_few_versions(version)
        markers == future_marker_powers(version, epoch)
    IN  [epoch |-> epoch,
         plaintext_value |-> user_state.plaintext_val,
         version |-> version,
         existence_at_ep |-> get_membership_proof(azks, label_at_ep, epoch),
         previous_val_stale_at_ep |-> get_membership_proof(azks, prev_label_at_ep, epoch),
         non_existence_before_ep |->
            get_non_membership_proof(azks, label_at_ep, epoch - 1),
         non_existence_of_next_few |->
            [i \in 1..Cardinality(few) |->
                get_non_membership_proof(azks,
                    get_nodelabel(uname, FALSE, version + i), epoch)],
         non_existence_of_future_markers |->
            [i \in 1..Cardinality(markers) |->
                get_non_membership_proof(azks,
                    get_nodelabel(uname, FALSE, Pow2(next_marker + i - 1)), epoch)]]

key_history(uname) ==
    IF user_data[uname] = <<>>
    THEN [ok |-> FALSE,
          err |-> <<"LookedUpNonExistentUser", uname, current_epoch>>,
          proofs |-> <<>>]
    ELSE [ok |-> TRUE,
          err |-> <<>>,
          proofs |-> [i \in 1..Len(user_data[uname]) |->
                        create_single_update_proof(uname, user_data[uname][i])]]

KeyHistory ==
    /\ \E uname \in Users :
          last' = [op |-> "key_history", arg |-> uname, result |-> key_history(uname)]
    /\ UNCHANGED <<current_epoch, user_data, azks, history, store>>

(***************************************************************************)
(* SeemlessDirectory::_verify_single_update_proof                          *)
(* Every failed check returns an error value.  epoch - 1 is a u64          *)
(* subtraction: for epoch 0 it overflows (a panic or a wrap-around, as the *)
(* build decides).                                                         *)
(***************************************************************************)
\* the check of non_existence_before_ep: against root_hash, the root hash of
\* proof.epoch, with epoch - 1 as the epoch
verify_non_existence_before_ep(proof, uname) ==
    verify_nonmembership(get_nodelabel(uname, FALSE, proof.version),
                         get_root_hash_at_epoch(azks, proof.epoch).hash,
                         proof.epoch - 1,
                         proof.non_existence_before_ep)

verify_single_update_proof(proof, uname) ==
    LET epoch == proof.epoch
        version == proof.version
        label_at_ep == get_nodelabel(uname, FALSE, version)
        root == get_root_hash_at_epoch(azks, epoch)
        root_hash == root.hash
    IN  IF ~root.ok THEN "Err: " \o root.err
        ELSE IF label_at_ep # proof.existence_at_ep.label
        THEN "Err: Label does not match the one in the proof"
        ELSE IF ~verify_membership(root_hash, epoch, proof.existence_at_ep)
        THEN "Err: Existence proof does not verify"
        ELSE IF ~verify_membership(root_hash, epoch, proof.previous_val_stale_at_ep)
        THEN "Err: Staleness proof does not verify"
        ELSE IF epoch = 0
        THEN "Overflow: epoch - 1"
        ELSE IF ~verify_non_existence_before_ep(proof, uname)
        THEN "Err: Non-existence before epoch proof does not verify"
        ELSE IF version = 0
        THEN "Overflow: get_marker_version(0)"
        ELSE "Ok"

\* the update proofs a verifier is handed: as key_history returned them, and
\* with the epoch or the version set to 0
UpdateVariants == {"original", "epoch_zero", "version_zero"}

update_proof_variant(original_proof, variant) ==
    CASE variant = "original" -> original_proof
      [] variant = "epoch_zero" -> [original_proof EXCEPT !.epoch = 0]
      [] variant = "version_zero" -> [original_proof EXCEPT !.version = 0]

\* the verifier runs on every update proof key_history returns for uname
VerifySingleUpdateProof ==
    /\ \E uname \in Users :
          /\ key_history(uname).ok
          /\ last' = [op |-> "verify_single_update_proof",
                      arg |-> uname,
                      result |-> [i \in 1..Len(key_history(uname).proofs) |->
                                    [variant \in UpdateVariants |->
                                        verify_single_update_proof(
                                            update_proof_variant(
                                                key_history(uname).proofs[i], variant),
                                            uname)]]]
    /\ UNCHANGED <<current_epoch, user_data, azks, history, store>>

(***************************************************************************)
(* audit and audit_verify.  SeemlessDirectory::audit and ::audit_verify    *)
(* are stubs; what the test vectors and the benchmark call is modelled     *)
(* from the specification (sections 4.4 and 4.5).                          *)
(***************************************************************************)
\* append_only_proof(e1, e2): the nodes there at e1 and the leaves added since
get_append_only_proof(a, e1, e2) ==
    [unchanged_nodes |-> PairsAt(a, e1),
     inserted_nodes |-> PairsAt(a, e2) \ PairsAt(a, e1)]

\* an audit that answers with one proof spanning the whole range
audit_single_proof(audit_start_ep, audit_end_ep) ==
    IF audit_start_ep < audit_end_ep /\ audit_end_ep <= current_epoch
    THEN [ok |-> TRUE,
          proofs |-> <<get_append_only_proof(azks, audit_start_ep, audit_end_ep)>>]
    ELSE [ok |-> FALSE, proofs |-> <<>>]

\* one single-step proof per consecutive epoch pair of [start, end)
audit(audit_start_ep, audit_end_ep) ==
    IF audit_start_ep < audit_end_ep /\ audit_end_ep <= current_epoch
    THEN [ok |-> TRUE,
          proofs |-> [i \in 1..(audit_end_ep - audit_start_ep) |->
                        get_append_only_proof(azks, audit_start_ep + i - 1,
                                              audit_start_ep + i)]]
    ELSE [ok |-> FALSE, proofs |-> <<>>]

\* a verifier that only rebuilds the two roots
verify_append_only_by_roots(proof, start_hash, end_hash) ==
    IF RootOf(proof.unchanged_nodes) # start_hash
          \/ RootOf(proof.unchanged_nodes \cup proof.inserted_nodes) # end_hash
    THEN "AuditFailed"
    ELSE "Ok"

\* the verifier rebuilds both roots from the proof and compares them with the
\* two commitments; an inserted leaf with the label of an unchanged one is a
\* rewrite
verify_append_only(proof, start_hash, end_hash) ==
    IF \E p \in proof.inserted_nodes, q \in proof.unchanged_nodes : p[1] = q[1]
    THEN "AppendOnlyViolation"
    ELSE IF RootOf(proof.unchanged_nodes) # start_hash
            \/ RootOf(proof.unchanged_nodes \cup proof.inserted_nodes) # end_hash
    THEN "AuditFailed"
    ELSE "Ok"

audit_verify(hashes, proofs) ==
    IF Len(hashes) # Len(proofs) + 1 THEN "AuditFailed"
    ELSE LET bad == {i \in 1..Len(proofs) :
                        verify_append_only(proofs[i], hashes[i], hashes[i + 1]) # "Ok"}
         IN  IF bad = {} THEN "Ok"
             ELSE LET first == CHOOSE i \in bad : \A j \in bad : i <= j
                  IN  verify_append_only(proofs[first], hashes[first], hashes[first + 1])

\* the epochs whose commitment a successful publish handed out
PublishedEpochs == {history.published[i].epoch : i \in 1..Len(history.published)}

CommitmentAt(e) ==
    history.published[CHOOSE i \in 1..Len(history.published) :
                         history.published[i].epoch = e].hash

Audit ==
    /\ \E e1 \in 0..MaxEpoch, e2 \in 0..MaxEpoch :
          /\ e1 <= e2
          /\ last' = [op |-> "audit", arg |-> <<e1, e2>>, result |-> audit(e1, e2)]
    /\ UNCHANGED <<current_epoch, user_data, azks, history, store>>

\* the auditor's loop of the test vectors: the commitments of e1..e2 as they
\* were published, against the proof audit returns now
AuditVerify ==
    /\ \E e1 \in PublishedEpochs, e2 \in PublishedEpochs :
          /\ e1 < e2
          /\ \A e \in e1..e2 : e \in PublishedEpochs
          /\ audit(e1, e2).ok
          /\ last' = [op |-> "audit_verify",
                      arg |-> <<e1, e2>>,
                      result |-> audit_verify([i \in 1..(e2 - e1 + 1) |->
                                                  CommitmentAt(e1 + i - 1)],
                                              audit(e1, e2).proofs)]
    /\ UNCHANGED <<current_epoch, user_data, azks, history, store>>

\* the proof of one step with a leaf that was there at the start of the step
\* offered again, with another hash, among the inserted nodes
rewrite_leaf(proof, label) ==
    [proof EXCEPT !.inserted_nodes =
        @ \cup {<<q[1], TamperedHash(q[2])>> : q \in {r \in proof.unchanged_nodes : r[1] = label}}]

\* the auditor is handed, for a published step e1 -> e1 + 1, the proof audit
\* returns with one leaf rewritten
AuditVerifyRewrite ==
    /\ \E e1 \in PublishedEpochs :
          /\ e1 + 1 \in PublishedEpochs
          /\ audit(e1, e1 + 1).ok
          /\ \E q \in audit(e1, e1 + 1).proofs[1].unchanged_nodes :
                last' = [op |-> "audit_verify_rewrite",
                         arg |-> <<e1, e1 + 1, q[1]>>,
                         result |-> audit_verify(
                                       <<CommitmentAt(e1), CommitmentAt(e1 + 1)>>,
                                       <<rewrite_leaf(audit(e1, e1 + 1).proofs[1], q[1])>>)]
    /\ UNCHANGED <<current_epoch, user_data, azks, history, store>>

(***************************************************************************)
(* The storage layer (src/src/storage/mod.rs).  Storable::store and        *)
(* ::retrieve are translated from the source; strings are sequences of     *)
(* characters, bytes are 0..255.  The implementations of the Storage trait *)
(* are not part of the sources at hand: the store is modelled from the     *)
(* specification as one map from positions to values.                      *)
(***************************************************************************)
HexDigits ==
    <<"0", "1", "2", "3", "4", "5", "6", "7", "8", "9", "a", "b", "c", "d", "e", "f">>

\* hex::encode: two digits per byte, high nibble first
RECURSIVE hex_encode(_)
hex_encode(bytes) ==
    IF bytes = <<>> THEN <<>>
    ELSE <<HexDigits[(bytes[1] \div 16) + 1], HexDigits[(bytes[1] % 16) + 1]>>
            \o hex_encode(Tail(bytes))

HexValue(c) ==
    IF \E i \in 1..16 : HexDigits[i] = c
    THEN (CHOOSE i \in 1..16 : HexDigits[i] = c) - 1
    ELSE -1

\* hex::decode: an error on an odd length or on a character that is no digit
RECURSIVE hex_decode(_)
hex_decode(str) ==
    IF str = <<>> THEN [ok |-> TRUE, bytes |-> <<>>]
    ELSE IF Len(str) = 1 \/ HexValue(str[1]) < 0 \/ HexValue(str[2]) < 0
    THEN [ok |-> FALSE, bytes |-> <<>>]
    ELSE LET rest == hex_decode(Tail(Tail(str)))
         IN  [ok |-> rest.ok,
              bytes |-> IF rest.ok
                        THEN <<16 * HexValue(str[1]) + HexValue(str[2])>> \o rest.bytes
                        ELSE <<>>]

\* bincode::serialize of a byte string: its length as a little-endian u64,
\* then the bytes (lengths stay below 256 here)
bincode_serialize(x) ==
    <<Len(x) % 256, 0, 0, 0, 0, 0, 0, 0>> \o x

\* bincode::deserialize: an error unless the length prefix fits what follows
bincode_deserialize(bytes) ==
    IF /\ Len(bytes) >= 8
       /\ bytes[1] = Len(bytes) - 8
       /\ \A i \in 2..8 : bytes[i] = 0
    THEN [ok |-> TRUE, value |-> SubSeq(bytes, 9, Len(bytes))]
    ELSE [ok |-> FALSE, value |-> <<>>]

\* a position that names the item type only
storage_key_without_key(identifier, key) ==
    identifier \o <<":">>

\* format!("{}:{}", Self::identifier(), hex::encode(bincode::serialize(&key)))
storage_key(identifier, key) ==
    identifier \o <<":">> \o hex_encode(bincode_serialize(key))

\* Storage::set and Storage::get on a store st
set_in(st, pos, val) ==
    [k \in DOMAIN st \cup {pos} |-> IF k = pos THEN val ELSE st[k]]

get_in(st, pos) ==
    IF pos \in DOMAIN st THEN [ok |-> TRUE, val |-> st[pos]]
    ELSE [ok |-> FALSE, val |-> <<>>]

\* Storable::store
store_in(st, identifier, key, value) ==
    set_in(st, storage_key(identifier, key), hex_encode(bincode_serialize(value)))

\* Storable::retrieve: the error of get is passed on, the hex decoding is
\* unwrapped, a failed deserialization is a GetError
retrieve_in(st, identifier, key) ==
    LET got == get_in(st, storage_key(identifier, key))
    IN  IF ~got.ok THEN [outcome |-> "Err: GetError", value |-> <<>>]
        ELSE IF ~hex_decode(got.val).ok
        THEN [outcome |-> "Panic: unwrap of hex::decode", value |-> <<>>]
        ELSE IF ~bincode_deserialize(hex_decode(got.val).bytes).ok
        THEN [outcome |-> "Err: GetError", value |-> <<>>]
        ELSE [outcome |-> "Ok",
              value |-> bincode_deserialize(hex_decode(got.val).bytes).value]

\* the items stored: two item types, keys and values are short byte strings
Identifiers == {<<"n">>, <<"u", "d">>}
ItemKeys == {<<>>, <<1>>}
ItemValues == {<<>>, <<171>>}

\* the positions and values of direct set and get calls: the position of an
\* item and one of no item, the string of an item value and one of none
Positions == {storage_key(<<"n">>, <<1>>), <<"r">>}
Strings == {hex_encode(bincode_serialize(<<171>>)), <<"z", "z", "z">>}

Set ==
    /\ \E pos \in Positions, val \in Strings :
          /\ store' = set_in(store, pos, val)
          /\ last' = [op |-> "set", arg |-> <<pos, val>>, result |-> "Ok"]
    /\ UNCHANGED <<current_epoch, user_data, azks, history>>

Get ==
    /\ \E pos \in Positions :
          last' = [op |-> "get", arg |-> pos, result |-> get_in(store, pos)]
    /\ UNCHANGED <<current_epoch, user_data, azks, history, store>>

Store ==
    /\ \E identifier \in Identifiers, key \in ItemKeys, value \in ItemValues :
          /\ store' = store_in(store, identifier, key, value)
          /\ last' = [op |-> "store", arg |-> <<identifier, key, value>>, result |-> "Ok"]
    /\ UNCHANGED <<current_epoch, user_data, azks, history>>

Retrieve ==
    /\ \E identifier \in Identifiers, key \in ItemKeys :
          last' = [op |-> "retrieve",
                   arg |-> <<identifier, key>>,
                   result |-> retrieve_in(store, identifier, key)]
    /\ UNCHANGED <<current_epoch, user_data, azks, history, store>>

(***************************************************************************)
(* Commitments and leaf hashes (src/akd_core/src/crypto.rs).  A digest is  *)
(* a little-endian byte string; hash(i2osp_array(value) ||                 *)
(* i2osp_array(nonce)) is some digest, the same for client and server,     *)
(* who hash the same bytes (a random oracle: any digest may come out).     *)
(* The Poseidon sponge is symbolic (injective on its scalars).             *)
(***************************************************************************)
RECURSIVE Power(_, _)
Power(b, k) == IF k <= 0 THEN 1 ELSE b * Power(b, k - 1)

Digests == [1..4 -> 0..(ByteBase - 1)]

\* bytes_to_u64_array: the limbs, each u64::from_le_bytes of its bytes
bytes_to_u64_array(bytes) ==
    [i \in 1..2 |-> bytes[2 * i - 1] + ByteBase * bytes[2 * i]]

\* BlsScalar::from_raw: the scalar congruent to the little-endian integer
BlsScalar_from_raw(arr) ==
    (arr[1] + Power(ByteBase, 2) * arr[2]) % FieldModulus

\* BlsScalar::to_bytes: the canonical little-endian bytes of a scalar
BlsScalar_to_bytes(scalar) ==
    [i \in 1..4 |-> (scalar \div Power(ByteBase, i - 1)) % ByteBase]

\* generate_commitment_from_nonce_client: AzksValue(hash(value || nonce))
generate_commitment_from_nonce_client(digest) ==
    digest

\* compute_fresh_azks_value: the digest through BlsScalar::from_raw and to_bytes
compute_fresh_azks_value(digest) ==
    BlsScalar_to_bytes(BlsScalar_from_raw(bytes_to_u64_array(digest)))

\* hash_leaf_with_commitment: the sponge hash of the commitment, as a scalar,
\* and the epoch
hash_leaf_with_commitment(commitment, epoch) ==
    <<"poseidon", BlsScalar_from_raw(bytes_to_u64_array(commitment)),
      epoch % FieldModulus>>

hash_leaf_with_value(digest, epoch) ==
    hash_leaf_with_commitment(generate_commitment_from_nonce_client(digest), epoch)

\* client and server derive commitment and leaf hash of one value: digest is
\* hash(i2osp_array(value) || i2osp_array(nonce)), nonce the server's
\* get_commitment_nonce(key, label, version, value)
LeafHashes ==
    /\ \E digest \in Digests, epoch \in 0..MaxEpoch :
          last' = [op |-> "leaf_hash",
                   arg |-> <<digest, epoch>>,
                   result |->
                      [client_commitment |-> generate_commitment_from_nonce_client(digest),
                       server_commitment |-> compute_fresh_azks_value(digest),
                       client_leaf |-> hash_leaf_with_value(digest, epoch),
                       server_leaf |-> hash_leaf_with_commitment(
                                          compute_fresh_azks_value(digest), epoch)]]
    /\ UNCHANGED <<current_epoch, user_data, azks, history, store>>

(***************************************************************************)
(* SeemlessDirectory::new                                                  *)
(***************************************************************************)
Init ==
    /\ current_epoch = 0
    /\ user_data = [u \in Users |-> <<>>]
    /\ azks = Azks_new
    /\ last = [op |-> "new", arg |-> <<>>, result |-> "Ok"]
    /\ history = [published |-> <<>>,
                  supplied |-> [u \in Users |-> <<"none">>],
                  included |-> [u \in Users |-> 0],
                  insertion_set |-> {},
                  n_ok |-> 0]
    /\ store = [pos \in {} |-> <<>>]

Next ==
    \/ Publish
    \/ Lookup
    \/ LookupVerify
    \/ KeyHistory
    \/ VerifySingleUpdateProof
    \/ Audit
    \/ AuditVerify
    \/ AuditVerifyRewrite

Spec == Init /\ [][Next]_vars

\* the storage layer on its own (the directory holds it as a type parameter
\* only and never calls it)
StorageNext ==
    \/ Set
    \/ Get
    \/ Store
    \/ Retrieve

StorageSpec == Init /\ [][StorageNext]_vars

\* the commitment functions on their own
CryptoNext ==
    \/ LeafHashes

CryptoSpec == Init /\ [][CryptoNext]_vars

(***************************************************************************)
(* The claims.                                                             *)
(***************************************************************************)
\* v_u: the user's latest version, 0 when the user has no entry
latest_version(uname) ==
    IF user_data[uname] = <<>> THEN 0
    ELSE user_data[uname][Len(user_data[uname])].version

IsPrefix(s, t) ==
    /\ Len(s) <= Len(t)
    /\ \A i \in 1..Len(s) : s[i] = t[i]

\* C1: the epoch starts at 0 and only successful publishes advance it, each by
\* exactly 1: after n successful publishes the current epoch is n.
C1_EpochIsNumberOfSuccessfulPublishes ==
    current_epoch = history.n_ok

\* C2: a publish whose batch repeats a user fails with DuplicateKeyInBatch and
\* leaves the epoch, every user's history and the AZKS as they were.
C2_DuplicateBatchLeavesStateUnchanged ==
    [][(last'.op = "publish" /\ last'.arg.duplicate)
          => /\ last'.result = "DuplicateKeyInBatch"
             /\ current_epoch' = current_epoch
             /\ user_data' = user_data
             /\ azks' = azks]_vars

\* C3: lookup_verify returns success on the proof lookup produces for a user
\* with a published version.
C3_LookupVerifyAcceptsLookupProof ==
    last.op = "lookup_verify" => last.result["original"] = "Ok"

\* C4: lookup_verify accepts the unmodified proof and rejects the proof with
\* exactly one of epoch, version, value, existence label, leaf hash or sibling
\* hash changed.
C4_TamperedProofRejected ==
    last.op = "lookup_verify"
        => /\ last.result["original"] = "Ok"
           /\ \A variant \in Variants \ {"original"} : last.result[variant] # "Ok"

\* C5: key_history returns one update proof per published version of the
\* user, most recent first (versions and epochs strictly decreasing), each with
\* the value and epoch of the publish that created the version.
C5_KeyHistoryMostRecentFirst ==
    (last.op = "key_history" /\ last.result.ok)
        => LET states == user_data[last.arg]
               proofs == last.result.proofs
               n == Len(states)
           IN  /\ Len(proofs) = n
               /\ \A i \in 1..n :
                     /\ proofs[i].version = states[n + 1 - i].version
                     /\ proofs[i].epoch = states[n + 1 - i].epoch
                     /\ proofs[i].plaintext_value = states[n + 1 - i].plaintext_val
               /\ \A i \in 1..(n - 1) :
                     /\ proofs[i].version > proofs[i + 1].version
                     /\ proofs[i].epoch > proofs[i + 1].epoch

\* C6: for published epochs e1 < e2, audit_verify accepts the commitments
\* C_e1..C_e2 with the proof audit(e1, e2) returns.
C6_AuditVerifyAccepts ==
    last.op = "audit_verify" => last.result = "Ok"

\* C7: publish only adds leaves: every (label, leaf hash) in the AZKS at the
\* epoch before a step is in the AZKS, unchanged, at the epoch after it.
C7_AppendOnly ==
    [][PairsAt(azks, current_epoch) \subseteq PairsAt(azks', current_epoch')]_vars

C7_Witness ==
    /\ last.op = "publish"
    /\ last.result = "Ok"
    /\ \E l, m \in azks.leaves : l.epoch < m.epoch /\ m.epoch = azks.latest_epoch

\* C8: no step changes what was written: every user's history before the step
\* is a prefix of the history after it, and the root hash of every epoch a
\* publish has handed out a commitment for is the same after the step.
C8_HistoryImmutable ==
    [][/\ \A u \in Users : IsPrefix(user_data[u], user_data'[u])
       /\ \A e \in PublishedEpochs :
             get_root_hash_at_epoch(azks', e) = get_root_hash_at_epoch(azks, e)]_vars

\* C9: lookup and key_history fail with the user-does-not-exist error carrying
\* the current epoch, and no proof, for a user with no version, and succeed for
\* every user with a version.
C9_UnknownUserError ==
    last.op \in {"lookup", "key_history"}
        => IF latest_version(last.arg) = 0
           THEN /\ ~last.result.ok
                /\ last.result.err = <<"LookedUpNonExistentUser", last.arg, current_epoch>>
                /\ last.op = "lookup" => last.result.proof = NoProof
                /\ last.op = "key_history" => last.result.proofs = <<>>
           ELSE /\ last.result.ok
                /\ last.op = "lookup" => last.result.proof # NoProof
                /\ last.op = "key_history" => last.result.proofs # <<>>

C9_Witness ==
    /\ last.op = "lookup"
    /\ ~last.result.ok
    /\ current_epoch >= 1
    /\ \E u \in Users : latest_version(u) >= 1

\* C10: the proof lookup returns carries the user's latest version, the value
\* of the most recent publish that updated the user, and the current epoch.
C10_LookupProofFields ==
    (last.op = "lookup" /\ last.result.ok)
        => /\ last.result.proof.version = latest_version(last.arg)
           /\ last.result.proof.version = Len(user_data[last.arg])
           /\ last.result.proof.plaintext_value = history.supplied[last.arg]
           /\ last.result.proof.epoch = current_epoch

C10_Witness ==
    /\ last.op = "lookup"
    /\ last.result.ok
    /\ last.result.proof.version >= 2
    /\ user_data[last.arg][Len(user_data[last.arg])].epoch < current_epoch

\* C11: the proof lookup_verify accepts for a user carries as version the number
\* of (successful) publishes that included the user, the value given in the most
\* recent of them, and the epoch of that publish.
C11_VerifiedLookupResult ==
    last.op = "lookup_verify"
        => /\ last.result["original"] = "Ok"
           /\ LET verified == lookup(last.arg).proof
              IN  /\ verified.version = history.included[last.arg]
                  /\ verified.plaintext_value = history.supplied[last.arg]
                  /\ verified.epoch = history.supplied[last.arg][2]

\* the outcomes of a verifier that are not a returned value
Aborts ==
    {"Panic: unwrap of the root hash", "Panic: assert on the existence label",
     "Panic: assert on the freshness label", "Panic: assert on the marker label",
     "Panic: Existence proof did not verify!", "Panic: Marker proof did not verify!",
     "Panic: Freshness proof did not verify!",
     "Overflow: epoch - 1", "Overflow: get_marker_version(0)"}

\* C12: verification is total: on every proof handed to lookup_verify or to the
\* single-update verification, honest or changed, the verifier returns a value
\* (success or a verification error) and never panics.
C12_VerificationIsTotal ==
    /\ last.op = "lookup_verify"
          => \A variant \in Variants : last.result[variant] \notin Aborts
    /\ last.op = "verify_single_update_proof"
          => \A i \in 1..Len(last.result) :
                \A variant \in UpdateVariants : last.result[i][variant] \notin Aborts

\* C13: a publish with an empty batch fails with EmptyBatch and changes neither
\* the epoch nor any other state of the directory.
C13_EmptyBatchRejected ==
    [][(last'.op = "publish" /\ last'.arg.users = {})
          => /\ last'.result = "EmptyBatch"
             /\ current_epoch' = current_epoch
             /\ user_data' = user_data
             /\ azks' = azks]_vars

\* C14: publish is all-or-nothing: a publish whose batch insertion fails
\* returns that error and leaves the epoch and every user's history as they
\* were; epoch and user table change only in a publish that succeeds.
C14_PublishAllOrNothing ==
    [][/\ (last'.op = "publish" /\ last'.result # "Ok")
             => (current_epoch' = current_epoch /\ user_data' = user_data)
       /\ (current_epoch' # current_epoch \/ user_data' # user_data)
             => (last'.op = "publish" /\ last'.result = "Ok" /\ azks' # azks)]_vars

\* C15: key_history asked for the most recent update of an existing user
\* returns exactly one update proof: the user's latest version, with the value
\* and the epoch of the most recent publish that updated the user.
\* (key_history takes the user name only; this is the call a caller asking for
\* MostRecent(1) makes.)
C15_MostRecentOneUpdate ==
    (last.op = "key_history" /\ last.result.ok)
        => LET states == user_data[last.arg]
               proofs == last.result.proofs
           IN  /\ Len(proofs) = 1
               /\ proofs[1].version = latest_version(last.arg)
               /\ proofs[1].plaintext_value = history.supplied[last.arg]
               /\ proofs[1].epoch = states[Len(states)].epoch

\* C16: a lookup reports the epoch and the root hash of the most recent
\* successful publish: the epoch its proof carries and the root hash its
\* sub-proofs are built against are those that publish handed out.
C16_ReadsReportLastCommitment ==
    (last.op = "lookup" /\ last.result.ok /\ history.published # <<>>)
        => LET committed == history.published[Len(history.published)]
           IN  /\ last.result.proof.epoch = committed.epoch
               /\ get_root_hash_at_epoch(azks, last.result.proof.epoch).hash
                     = committed.hash

\* the position a step writes (<<>> is no position: every position holds ":"
\* or is "r")
written_position ==
    IF last'.op = "set" THEN last'.arg[1]
    ELSE IF last'.op = "store" THEN storage_key(last'.arg[1], last'.arg[2])
    ELSE <<>>

C19_VersionHistory ==
    \A u \in Users :
        \A i \in 1..Len(user_data[u]) :
            /\ user_data[u][i].version = i
            /\ user_data[u][i].epoch \in 1..current_epoch
            /\ i > 1 => user_data[u][i].epoch > user_data[u][i - 1].epoch
            /\ user_data[u][i].epoch = user_data[u][i].plaintext_val[2]

C19_Witness ==
    \E u \in Users :
        /\ Len(user_data[u]) >= 2
        /\ user_data[u][2].epoch > user_data[u][1].epoch + 1
        /\ last.op = "publish"
        /\ u \in last.arg.users

\* the labels a publish of the users us hands to the AZKS: for each user the
\* fresh label of version v_u + 1 and, when v_u >= 1, the stale label of v_u
expected_labels(us) ==
    {get_nodelabel(u, FALSE, latest_version(u) + 1) : u \in us}
        \cup {get_nodelabel(u, TRUE, latest_version(u)) : u \in {w \in us : latest_version(w) >= 1}}

\* C20: the leaves a publish hands to the AZKS are, for each (u, value) of the
\* batch, the fresh leaf (u, Fresh, v_u + 1) with the commitment to the value
\* and, if and only if v_u + 1 > 1, the stale leaf (u, Stale, v_u) with the
\* fixed stale value; nothing else is handed over.
C20_LeavesHandedToAzks ==
    [][last'.op = "publish"
          => LET handed == history'.insertion_set
                 us == last'.arg.users
             IN  /\ {p[1] : p \in handed} = expected_labels(us)
                 /\ \A p \in handed :
                       IF p[1][2] THEN p[2] = stale_value
                       ELSE \E k \in {0, 1} :
                               p[2] = value_hash(<<"val", current_epoch', k>>)
                 /\ \A u \in us :
                       <<get_nodelabel(u, FALSE, latest_version(u) + 1),
                         value_hash(history'.supplied[u])>> \in handed
                 /\ ~last'.arg.duplicate
                       => Cardinality(handed) = Cardinality(expected_labels(us))]_vars

C20_Witness ==
    /\ last.op = "publish"
    /\ last.result = "Ok"
    /\ \E p, q \in history.insertion_set :
          /\ p[1][2] /\ p[1][3] >= 1
          /\ ~q[1][2] /\ q[1][3] = 1
    /\ Cardinality(history.insertion_set) = 3

\* C21: no publish hands the AZKS a label that is already in the tree or that
\* occurs twice in the batch, so publish never comes back with RepeatedLabel or
\* DuplicateInsertion.
C21_LabelsSubmittedOnce ==
    [][last'.op = "publish"
          => /\ \A p \in history'.insertion_set :
                   p[1] \notin {l.label : l \in azks.leaves}
             /\ \A p, q \in history'.insertion_set : p[1] = q[1] => p = q
             /\ last'.result \notin {"RepeatedLabel", "DuplicateInsertion"}]_vars

\* marker(v) = 2^floor(log2 v): the largest power of two <= v
marker(v) ==
    CHOOSE m \in 1..v : (\E k \in 0..v : m = Pow2(k)) /\ m <= v /\ 2 * m > v

\* C22: the marker proof lookup builds for a user at version v is a membership
\* proof for the label (u, Fresh, marker(v)), and lookup_verify does not
\* reject the proof lookup returned at its checks of the marker label and
\* marker proof.
C22_MarkerLabel ==
    /\ (last.op = "lookup" /\ last.result.ok)
          => last.result.proof.marker_proof
                = get_membership_proof(azks,
                     get_nodelabel(last.arg, FALSE, marker(latest_version(last.arg))),
                     current_epoch)
    /\ last.op = "lookup_verify"
          => last.result["original"] \notin {"Panic: assert on the marker label",
                                            "Panic: Marker proof did not verify!"}

\* C23: the freshness proof lookup builds for a user at version v is a
\* non-membership proof for the label (u, Fresh, v + 1) at the current epoch,
\* and lookup_verify does not reject the proof lookup returned at its checks
\* of the freshness label and freshness proof.
C23_FreshnessLabel ==
    /\ (last.op = "lookup" /\ last.result.ok)
          => last.result.proof.freshness_proof
                = get_non_membership_proof(azks,
                     get_nodelabel(last.arg, FALSE, latest_version(last.arg) + 1),
                     current_epoch)
    /\ last.op = "lookup_verify"
          => last.result["original"] \notin {"Panic: assert on the freshness label",
                                            "Panic: Freshness proof did not verify!"}

\* what a proof that is left out of an update proof looks like
OmittedMembership == [label |-> <<"omitted">>, hash_val |-> NoHash, siblings |-> {}]
OmittedNonMembership == [label |-> <<"omitted">>, pairs |-> {}]

\* C24: the update proof of version v published at epoch e_v holds a
\* membership proof of the stale label (u, Stale, v - 1) at e_v exactly when
\* v > 1 (for v = 1 it is left out), and the verification of the update proofs
\* key_history returns succeeds, version 1 included.
C24_StalenessProof ==
    /\ (last.op = "key_history" /\ last.result.ok)
          => \A i \in 1..Len(last.result.proofs) :
                LET pr == last.result.proofs[i]
                IN  pr.previous_val_stale_at_ep =
                       IF pr.version = 1 THEN OmittedMembership
                       ELSE get_membership_proof(azks,
                               get_nodelabel(last.arg, TRUE, pr.version - 1), pr.epoch)
    /\ last.op = "verify_single_update_proof"
          => \A i \in 1..Len(last.result) : last.result[i]["original"] = "Ok"

\* C25: the update proof of version v published at epoch e_v holds a
\* non-membership proof of (u, Fresh, v) at epoch e_v - 1 exactly when e_v > 1
\* (for e_v = 1 it is left out), and the verifier's check of it is the check
\* against the root hash of epoch e_v - 1.
C25_NonExistenceBefore ==
    (last.op = "key_history" /\ last.result.ok)
        => \A i \in 1..Len(last.result.proofs) :
              LET pr == last.result.proofs[i]
                  label == get_nodelabel(last.arg, FALSE, pr.version)
              IN  IF pr.epoch = 1
                  THEN pr.non_existence_before_ep = OmittedNonMembership
                  ELSE /\ pr.non_existence_before_ep
                             = get_non_membership_proof(azks, label, pr.epoch - 1)
                       /\ verify_non_existence_before_ep(pr, last.arg)
                             = verify_nonmembership(label,
                                  get_root_hash_at_epoch(azks, pr.epoch - 1).hash,
                                  pr.epoch - 1, pr.non_existence_before_ep)

C27_FutureMarkers ==
    (last.op = "key_history" /\ last.result.ok)
        => \A i \in 1..Len(last.result.proofs) :
              LET pr == last.result.proofs[i]
                  ms == {m \in 1..current_epoch :
                            /\ \E k \in 0..current_epoch : m = Pow2(k)
                            /\ marker(pr.version) < m
                            /\ m <= marker(current_epoch)}
              IN  /\ Len(pr.non_existence_of_future_markers) = Cardinality(ms)
                  /\ {pr.non_existence_of_future_markers[j].label :
                         j \in 1..Len(pr.non_existence_of_future_markers)}
                        = {get_nodelabel(last.arg, FALSE, m) : m \in ms}

\* the labels with a leaf in the AZKS at the current epoch
labels_present == {l.label : l \in LeavesAt(azks, current_epoch)}

\* C28: for every user with latest version v >= 1 the fresh leaf (u, Fresh, v)
\* and the marker leaf (u, Fresh, marker(v)) are in the AZKS at the current
\* epoch, and the leaf (u, Fresh, v + 1) is not.
C28_LeavesOfLatestVersion ==
    \A u \in Users :
        latest_version(u) >= 1
            => /\ get_nodelabel(u, FALSE, latest_version(u)) \in labels_present
               /\ get_nodelabel(u, FALSE, marker(latest_version(u))) \in labels_present
               /\ get_nodelabel(u, FALSE, latest_version(u) + 1) \notin labels_present

\* C29: client and server derive the same leaf hash from a value, its nonce and
\* the epoch, and the commitment the client rebuilds from (value, nonce) is
\* the server's commitment.
C29_ClientServerLeafHash ==
    last.op = "leaf_hash"
        => /\ last.result.client_leaf = last.result.server_leaf
           /\ last.result.client_commitment = last.result.server_commitment

ReadOps == {"lookup", "lookup_verify", "key_history", "audit"}

C31_ReadsHaveNoSideEffects ==
    [][last'.op \in ReadOps
          => /\ current_epoch' = current_epoch
             /\ user_data' = user_data
             /\ azks' = azks]_vars

\* a read that fails after a publish has put leaves into the tree: a lookup or
\* key_history of a user that is not there, or a rejected audit range
C31_Witness ==
    /\ last.op \in {"lookup", "key_history", "audit"}
    /\ ~last.result.ok
    /\ current_epoch >= 1
    /\ azks.leaves # {}
    /\ \E u \in Users : user_data[u] # <<>>

marker_version_args_of_lookup(uname) ==
    {user_data[uname][Len(user_data[uname])].version}

marker_version_args_of_lookup_verify(proof) ==
    {proof.version}

marker_version_args_of_create_single_update_proof(user_state) ==
    {user_state.version, user_state.epoch}

\* C33: get_marker_version is never evaluated on 0: in every reachable state
\* the calls made by lookup, by lookup_verify of the proof lookup produced and
\* by the creation of every update proof pass a version >= 1 or an epoch >= 1,
\* and the proofs that were returned carry such versions and epochs.
C33_MarkerVersionNeverOfZero ==
    /\ \A uname \in Users :
          user_data[uname] # <<>>
             => /\ \A x \in marker_version_args_of_lookup(uname) : x >= 1
                /\ \A x \in marker_version_args_of_lookup_verify(lookup(uname).proof) :
                      x >= 1
                /\ \A i \in 1..Len(user_data[uname]) :
                      \A x \in marker_version_args_of_create_single_update_proof(
                                  user_data[uname][i]) : x >= 1
    /\ (last.op = "lookup" /\ last.result.ok) => last.result.proof.version >= 1
    /\ (last.op = "key_history" /\ last.result.ok)
          => \A i \in 1..Len(last.result.proofs) :
                /\ last.result.proofs[i].version >= 1
                /\ last.result.proofs[i].epoch >= 1

\* key_history has built the update proofs of a user with two versions, the
\* first of them of version 1, where the marker exponent is 0
C33_Witness ==
    /\ last.op = "key_history"
    /\ last.result.ok
    /\ Len(last.result.proofs) >= 2
    /\ last.result.proofs[1].version = 1
    /\ get_marker_version(last.result.proofs[1].version) = 0
    /\ \A i \in 1..Len(last.result.proofs) :
          0 \notin marker_version_args_of_create_single_update_proof(
                      user_data[last.arg][i])

====
